---- MODULE Spec2Model ----
(***************************************************************************)
(* Model of anonymize.py (BusinessDataAnonymizer): the value classifier,   *)
(* the pseudonym generators, the mapping store with its load / save, the   *)
(* row loop of anonymize_csv and reverse_lookup.                           *)
(*                                                                         *)
(* A Python str is a sequence of one-character strings, so that split,     *)
(* count, lower, isalnum and slicing are computed as Python computes them. *)
(* A dict is a sequence of <<key, value>> pairs in insertion order (Python *)
(* dicts iterate in insertion order; json.dump(sort_keys=True) followed by *)
(* json.load gives key order).                                             *)
(*                                                                         *)
(* hashlib.md5(s).hexdigest() is symbolic: its i-th hex digit is the       *)
(* one-token string "md5{s}[i]".  Two digests agree on a digit only when   *)
(* their inputs are equal: the digest is collision-free by construction.   *)
(* datetime.now().isoformat() is the token "datetime:<n>" of a clock that  *)
(* advances at every reading.                                              *)
(***************************************************************************)
EXTENDS Integers, Sequences, FiniteSets, TLC

(***************************************************************************)
(* Bounds of the model.                                                    *)
(***************************************************************************)
MaxRows == 2
MaxRuns == 2
MaxCalls == 2

(***************************************************************************)
(* Characters.                                                             *)
(***************************************************************************)
LowerLetters ==
  <<"a","b","c","d","e","f","g","h","i","j","k","l","m",
    "n","o","p","q","r","s","t","u","v","w","x","y","z">>

UpperLetters ==
  <<"A","B","C","D","E","F","G","H","I","J","K","L","M",
    "N","O","P","Q","R","S","T","U","V","W","X","Y","Z">>

DigitChars == <<"0","1","2","3","4","5","6","7","8","9">>

\* The characters of the model in code point order (what sorted() compares).
CodePointOrder ==
  <<" ", "-", ".">> \o DigitChars \o <<":", "@">> \o UpperLetters
    \o <<"_">> \o LowerLetters

Range(s) == {s[i] : i \in 1..Len(s)}

IsDigit(ch) == ch \in Range(DigitChars)

IsAlpha(ch) == ch \in Range(LowerLetters) \cup Range(UpperLetters)

IsAlnum(ch) == IsAlpha(ch) \/ IsDigit(ch)

CharUpper(ch) ==
  IF ch \in Range(LowerLetters)
  THEN UpperLetters[CHOOSE i \in 1..26 : LowerLetters[i] = ch]
  ELSE ch

CharLower(ch) ==
  IF ch \in Range(UpperLetters)
  THEN LowerLetters[CHOOSE i \in 1..26 : UpperLetters[i] = ch]
  ELSE ch

Ord(ch) == CHOOSE i \in 1..Len(CodePointOrder) : CodePointOrder[i] = ch

(***************************************************************************)
(* Python str methods.                                                     *)
(***************************************************************************)
str_upper(s) == [i \in 1..Len(s) |-> CharUpper(s[i])]

str_lower(s) == [i \in 1..Len(s) |-> CharLower(s[i])]

str_count(s, ch) == Cardinality({i \in 1..Len(s) : s[i] = ch})

\* sub in s
str_contains(s, sub) ==
  \E i \in 0..(Len(s) - Len(sub)) : SubSeq(s, i + 1, i + Len(sub)) = sub

\* s.replace(ch, '')
RECURSIVE str_remove(_, _)
str_remove(s, ch) ==
  IF s = <<>> THEN <<>>
  ELSE IF Head(s) = ch THEN str_remove(Tail(s), ch)
  ELSE <<Head(s)>> \o str_remove(Tail(s), ch)

\* s.isalnum(): non-empty and every character alphanumeric
str_isalnum(s) == s # <<>> /\ \A i \in 1..Len(s) : IsAlnum(s[i])

\* s.isalpha()
str_isalpha(s) == s # <<>> /\ \A i \in 1..Len(s) : IsAlpha(s[i])

\* s[:n]
str_prefix(s, n) == SubSeq(s, 1, IF n < Len(s) THEN n ELSE Len(s))

\* s.split(ch): always at least one piece; pieces may be empty
RECURSIVE str_split(_, _)
str_split(s, ch) ==
  IF \A i \in 1..Len(s) : s[i] # ch THEN <<s>>
  ELSE LET k == CHOOSE i \in 1..Len(s) :
                  s[i] = ch /\ \A j \in 1..(i - 1) : s[j] # ch
       IN  <<SubSeq(s, 1, k - 1)>> \o str_split(SubSeq(s, k + 1, Len(s)), ch)

\* s.split(ch, 1)
str_split1(s, ch) ==
  IF \A i \in 1..Len(s) : s[i] # ch THEN <<s>>
  ELSE LET k == CHOOSE i \in 1..Len(s) :
                  s[i] = ch /\ \A j \in 1..(i - 1) : s[j] # ch
       IN  <<SubSeq(s, 1, k - 1), SubSeq(s, k + 1, Len(s))>>

\* a < b on str: lexicographic by code point, a proper prefix is smaller
RECURSIVE str_less(_, _)
str_less(a, b) ==
  IF b = <<>> THEN FALSE
  ELSE IF a = <<>> THEN TRUE
  ELSE IF Head(a) = Head(b) THEN str_less(Tail(a), Tail(b))
  ELSE Ord(Head(a)) < Ord(Head(b))

\* The decimal digits of n >= 0.
RECURSIVE Decimal(_)
Decimal(n) ==
  IF n < 10 THEN <<DigitChars[n + 1]>>
  ELSE Decimal(n \div 10) \o <<DigitChars[(n % 10) + 1]>>

\* f"{n:0wd}": zero-padded to a minimum width of w, never truncated
ZeroPad(n, w) ==
  LET d == Decimal(n)
  IN  [i \in 1..(IF Len(d) < w THEN w - Len(d) ELSE 0) |-> "0"] \o d

\* One token that names the whole str s (used inside symbolic digests).
RECURSIVE Text(_)
Text(s) == IF s = <<>> THEN "" ELSE Head(s) \o Text(Tail(s))

\* hashlib.md5(s.encode()).hexdigest(): 32 symbolic hex digits
md5_hexdigest(s) ==
  LET input == Text(s)
  IN  [i \in 1..32 |-> "md5{" \o input \o "}[" \o ToString(i - 1) \o "]"]

\* hashlib.md5(s.encode()).hexdigest()[:n].upper()
md5_hexdigest_upper(s, n) ==
  LET input == Text(s)
  IN  [i \in 1..n |-> "MD5{" \o input \o "}[" \o ToString(i - 1) \o "]"]

\* datetime.now().isoformat() read when the clock shows t
isoformat(t) == <<"datetime:" \o ToString(t)>>

\* A JSON integer held in the metadata dict.
IntValue(n) == <<"int:" \o ToString(n)>>

\* The value None of a cell the reader found absent (a short row).
NoneValue == <<"None">>

\* A Python list of str (the cells csv.DictReader collects under the key None
\* when a row is longer than the header): unhashable.
ListValue(items) == <<"list">> \o [i \in 1..Len(items) |-> Text(items[i])]

is_list(value) == Len(value) >= 1 /\ value[1] = "list"

(***************************************************************************)
(* Python dict, in insertion order.                                        *)
(***************************************************************************)
dict_has(d, k) == \E i \in 1..Len(d) : d[i][1] = k

dict_get(d, k) == d[CHOOSE i \in 1..Len(d) : d[i][1] = k][2]

dict_set(d, k, v) ==
  IF dict_has(d, k)
  THEN [i \in 1..Len(d) |-> IF d[i][1] = k THEN <<k, v>> ELSE d[i]]
  ELSE Append(d, <<k, v>>)

dict_keys(d) == {d[i][1] : i \in 1..Len(d)}

RECURSIVE insert_sorted(_, _)
insert_sorted(d, e) ==
  IF d = <<>> THEN <<e>>
  ELSE IF str_less(e[1], Head(d)[1]) THEN <<e>> \o d
  ELSE <<Head(d)>> \o insert_sorted(Tail(d), e)

\* the items of d in sorted key order
RECURSIVE sort_keys(_)
sort_keys(d) ==
  IF d = <<>> THEN <<>> ELSE insert_sorted(sort_keys(Tail(d)), Head(d))

(***************************************************************************)
(* Names the program fixes.                                                *)
(***************************************************************************)
\* "_metadata": the key of the store that holds the metadata dict
METADATA == <<"_","m","e","t","a","d","a","t","a">>

CREATED == <<"c","r","e","a","t","e","d">>

LAST_UPDATED == <<"l","a","s","t","_","u","p","d","a","t","e","d">>

TOTAL_MAPPINGS == <<"t","o","t","a","l","_","m","a","p","p","i","n","g","s">>

utm_indicators ==
  { <<"u","t","m","_">>,
    <<"c","a","m","p","a","i","g","n">>,
    <<"s","o","u","r","c","e">>,
    <<"m","e","d","i","u","m">>,
    <<"t","e","r","m">>,
    <<"c","o","n","t","e","n","t">> }

\* sum(len(v) for k, v in self.mappings.items() if k != "_metadata")
RECURSIVE total_mappings(_)
total_mappings(mappings) ==
  IF mappings = <<>> THEN 0
  ELSE (IF Head(mappings)[1] = METADATA THEN 0 ELSE Len(Head(mappings)[2]))
         + total_mappings(Tail(mappings))

(***************************************************************************)
(* Value classifier.                                                       *)
(***************************************************************************)
looks_like_utm(column_name, value) ==
  LET column_lower == str_lower(column_name)
  IN  \E indicator \in utm_indicators : str_contains(column_lower, indicator)

looks_like_id(value) ==
  \/ Len(value) > 20
  \/ str_count(value, "-") >= 2
  \/ str_count(value, "_") >= 2 /\ \E i \in 1..Len(value) : IsDigit(value[i])

looks_like_category(value) ==
  /\ Len(value) <= 50
  /\ str_isalnum(str_remove(str_remove(str_remove(value, " "), "-"), "_"))

\* The branch _create_anonymized_value takes for a value it has not seen.
classify(column_name, value) ==
  IF looks_like_utm(column_name, value) THEN "utm"
  ELSE IF looks_like_id(value) THEN "id"
  ELSE IF looks_like_category(value) THEN "category"
  ELSE "generic"

(***************************************************************************)
(* Pseudonym generators.                                                   *)
(***************************************************************************)
\* f"{column_name}:{value}"
hash_input(column_name, value) == column_name \o <<":">> \o value

anonymize_utm_style(value, column_name) ==
  LET parts == str_split1(value, "_")
  IN  IF Len(parts) = 2 /\ Len(parts[1]) < 15
      THEN parts[1] \o <<"_">>
             \o SubSeq(md5_hexdigest(hash_input(column_name, parts[2])), 1, 8)
      ELSE str_upper(str_prefix(str_split(column_name, "_")[1], 3)) \o <<"_">>
             \o SubSeq(md5_hexdigest(hash_input(column_name, value)), 1, 8)

anonymize_id_style(value, column_name) ==
  LET digest == md5_hexdigest(hash_input(column_name, value))
      parts == str_split(value, "-")
  IN  IF str_count(value, "-") > 0
      THEN IF Len(parts[1]) <= 6 /\ str_isalpha(parts[1])
           THEN parts[1] \o <<"-">> \o SubSeq(digest, 1, 4) \o <<"-">>
                  \o SubSeq(digest, 5, 8) \o <<"-">> \o SubSeq(digest, 9, 12)
           ELSE SubSeq(digest, 1, 4) \o <<"-">> \o SubSeq(digest, 5, 8) \o <<"-">>
                  \o SubSeq(digest, 9, 12) \o <<"-">> \o SubSeq(digest, 13, 16)
      ELSE <<"I", "D">> \o md5_hexdigest_upper(hash_input(column_name, value), 12)

\* word[0] of an empty word raises IndexError; the join reads every word
\* before the [:3] slice is taken.
category_prefix(column_name) ==
  LET words == str_split(column_name, "_")
  IN  IF \E i \in 1..Len(words) : words[i] = <<>>
      THEN [exc |-> "IndexError", ret |-> <<>>]
      ELSE LET initials == [i \in 1..Len(words) |-> CharUpper(words[i][1])]
               col_prefix == str_prefix(initials, 3)
           IN  [exc |-> "",
                ret |-> IF col_prefix = <<>> THEN <<"C", "A", "T">> ELSE col_prefix]

\* A wrong ordinal: counted from 0.
category_ordinal_zero_based(mappings, column_name) ==
  IF dict_has(mappings, column_name)
  THEN Len(dict_get(mappings, column_name)) ELSE 0

\* len(self.mappings.get(column_name, {})) + 1
category_ordinal(mappings, column_name) ==
  (IF dict_has(mappings, column_name)
   THEN Len(dict_get(mappings, column_name)) ELSE 0) + 1

anonymize_category_style(mappings, value, column_name) ==
  LET p == category_prefix(column_name)
  IN  IF p.exc # "" THEN p
      ELSE [exc |-> "",
            ret |-> p.ret \o <<"_">>
                      \o ZeroPad(category_ordinal(mappings, column_name), 3)]

\* called with the counter already incremented
anonymize_generic(counter, value, column_name) ==
  <<"A", "N", "O", "N", "_">>
    \o SubSeq(md5_hexdigest(hash_input(column_name, value)), 1, 6)
    \o <<"_">> \o ZeroPad(counter, 4)

(***************************************************************************)
(* Mapping store.                                                          *)
(***************************************************************************)
\* self.mappings[column_name][original_value] = anon_value
store_mapping(mappings, column_name, original_value, anon_value) ==
  dict_set(mappings, column_name,
           dict_set(dict_get(mappings, column_name), original_value, anon_value))

\* _create_anonymized_value on the store `mappings` and the generic counter:
\* the store and counter it leaves, what it returns, the exception it raises.
create_anonymized_value(mappings, counter, original_value, column_name) ==
  LET m == IF dict_has(mappings, column_name) THEN mappings
           ELSE Append(mappings, <<column_name, <<>>>>)
      column_map == dict_get(m, column_name)
      kind == classify(column_name, original_value)
      cat == anonymize_category_style(m, original_value, column_name)
  IN  IF is_list(original_value)
      THEN [mappings |-> m, counter |-> counter, exc |-> "TypeError", ret |-> <<>>]
      ELSE IF dict_has(column_map, original_value)
      THEN [mappings |-> m, counter |-> counter, exc |-> "",
            ret |-> dict_get(column_map, original_value)]
      ELSE IF kind = "utm"
      THEN LET a == anonymize_utm_style(original_value, column_name)
           IN  [mappings |-> store_mapping(m, column_name, original_value, a),
                counter |-> counter, exc |-> "", ret |-> a]
      ELSE IF kind = "id"
      THEN LET a == anonymize_id_style(original_value, column_name)
           IN  [mappings |-> store_mapping(m, column_name, original_value, a),
                counter |-> counter, exc |-> "", ret |-> a]
      ELSE IF kind = "category"
      THEN IF cat.exc # ""
           THEN [mappings |-> m, counter |-> counter, exc |-> cat.exc, ret |-> <<>>]
           ELSE [mappings |-> store_mapping(m, column_name, original_value, cat.ret),
                 counter |-> counter, exc |-> "", ret |-> cat.ret]
      ELSE LET a == anonymize_generic(counter + 1, original_value, column_name)
           IN  [mappings |-> store_mapping(m, column_name, original_value, a),
                counter |-> counter + 1, exc |-> "", ret |-> a]

\* The store a process starts with when no mapping file exists.
fresh_mappings(t) == << <<METADATA, << <<CREATED, isoformat(t)>> >> >> >>

\* The two metadata assignments of _save_mappings, made when the clock shows t.
update_metadata(mappings, t) ==
  LET meta1 == dict_set(dict_get(mappings, METADATA), LAST_UPDATED, isoformat(t))
      m1 == dict_set(mappings, METADATA, meta1)
      meta2 == dict_set(meta1, TOTAL_MAPPINGS, IntValue(total_mappings(m1)))
  IN  dict_set(m1, METADATA, meta2)

\* json.dump(self.mappings, f, sort_keys=True) read back by json.load:
\* the keys of the store and of every dict in it come in sorted order.
json_document(mappings) ==
  sort_keys([i \in 1..Len(mappings) |->
               <<mappings[i][1], sort_keys(mappings[i][2])>>])

(***************************************************************************)
(* Reverse lookup.                                                         *)
(***************************************************************************)
\* the keys of d whose value is anonymized_value, in iteration order
matches(d, anonymized_value) ==
  {i \in 1..Len(d) : d[i][2] = anonymized_value}

first_of(S) == CHOOSE i \in S : \A j \in S : i <= j

not_found(anonymized_value) == <<"No mapping found for: ">> \o anonymized_value

\* `if column_name:` is false for None and for ''
reverse_lookup(mappings, anonymized_value, column_name) ==
  IF column_name # NoneValue /\ column_name # <<>>
  THEN IF dict_has(mappings, column_name)
          /\ matches(dict_get(mappings, column_name), anonymized_value) # {}
       THEN LET d == dict_get(mappings, column_name)
            IN  d[first_of(matches(d, anonymized_value))][1]
       ELSE not_found(anonymized_value)
  ELSE LET cols == {c \in 1..Len(mappings) :
                       /\ mappings[c][1] # METADATA
                       /\ matches(mappings[c][2], anonymized_value) # {}}
       IN  IF cols # {}
           THEN LET c == first_of(cols)
                    d == mappings[c][2]
                IN  d[first_of(matches(d, anonymized_value))][1]
                      \o <<" (from column: ">> \o mappings[c][1] \o <<")">>
           ELSE not_found(anonymized_value)

(***************************************************************************)
(* Inputs: the column names and cell values the tables of the model hold.  *)
(***************************************************************************)
COL_ID == <<"i","d">>

COL_REGION == <<"r","e","g","i","o","n">>

COL_UTM == <<"u","t","m","_","s","o","u","r","c","e">>

COL_TAG == <<"t","a","g","_">>

\* config["preserve_columns"]
preserved_columns == {COL_ID}

V_7 == <<"7">>

V_NORTH == <<"N","o","r","t","h">>

V_SOUTH == <<"S","o","u","t","h">>

V_ABC == <<"a","-","b","-","c">>

V_MAIL == <<"a","@","b">>

V_DOT == <<"x",".","y">>

V_AB == <<"a","b">>

V_UTM_AB == <<"U","T","M","_","a","b">>

V_EXTRA == <<"e","x","t","r","a">>

\* The header rows a source table may have.
Headers == { <<COL_ID, COL_REGION>>, <<COL_UTM>>, <<COL_TAG>>, <<METADATA>> }

Columns == {COL_ID, COL_REGION, COL_UTM, COL_TAG, METADATA}

\* The cells a row may hold under a column: '' is an empty cell, None an
\* absent one.
cell_values(column) ==
  IF column = COL_ID THEN {V_7}
  ELSE IF column = COL_REGION
  THEN {<<>>, NoneValue, V_NORTH, V_SOUTH, V_ABC, V_MAIL}
  ELSE IF column = COL_UTM THEN {V_AB, V_UTM_AB}
  ELSE IF column = COL_TAG THEN {V_NORTH}
  ELSE {V_ABC, V_NORTH, LAST_UPDATED}

Values == UNION {cell_values(c) : c \in Columns}

\* The rows csv.DictReader may yield under a header: a cell per column, None
\* where the line is shorter than the header; or, when the line is longer
\* than the header, a str cell per column followed by the list of the cells
\* in excess (key None). No row has both an absent cell and cells in excess.
rows_of(header) ==
  LET cells == {r \in [1..Len(header) -> Values] :
                  \A i \in 1..Len(header) : r[i] \in cell_values(header[i])}
      full == {r \in cells : \A i \in 1..Len(header) : r[i] # NoneValue}
  IN  cells \cup {Append(r, ListValue(<<V_EXTRA>>)) : r \in full}

(***************************************************************************)
(* State.                                                                  *)
(***************************************************************************)
VARIABLES
  mappings,               \* self.mappings
  anonymization_counter,  \* self.anonymization_counter
  mapping_file,           \* the mapping file: [exists, doc]
  clock,                  \* what datetime.now() shows next
  pc,                     \* "ready", "rows", "done", "failed", "looked"
  fieldnames,             \* reader.fieldnames of the run
  source_rows,            \* the rows the reader has yielded in the run
  dest_file,              \* the destination file: [exists, header, rows]
  error,                  \* the exception the call raised, "" when none
  lookup,                 \* what reverse_lookup returned
  nruns,                  \* processes started so far
  runs                    \* two independent engines, each on its own store:
                          \* [mappings, counter, cells (the cells it was given)]

vars ==
  <<mappings, anonymization_counter, mapping_file, clock, pc, fieldnames,
    source_rows, dest_file, error, lookup, nruns, runs>>

engine_vars ==
  <<mappings, anonymization_counter, mapping_file, clock, pc, fieldnames,
    source_rows, dest_file, error, lookup, nruns>>

\* What the mapping file holds when open(..., 'w') has truncated it and the
\* write of the document did not complete: no JSON document.
truncated_document == <<>>

\* json.load raises on the file
unloadable(file) == file.exists /\ file.doc = truncated_document

\* _load_mappings, on a file json.load accepts, when the clock shows t
load_mappings(file, t) == IF file.exists THEN file.doc ELSE fresh_mappings(t)

\* Two engines constructed with no mapping file, one after the other: each
\* stamps its store with its own datetime.now().
fresh_runs ==
  [r \in 1..2 |->
     [mappings |-> fresh_mappings(r - 1), counter |-> 0, cells |-> <<>>]]

Init ==
  /\ mapping_file = [exists |-> FALSE, doc |-> <<>>]
  /\ mappings = load_mappings(mapping_file, 0)
  /\ anonymization_counter = 0
  /\ clock = 1
  /\ pc = "ready"
  /\ fieldnames = <<>>
  /\ source_rows = <<>>
  /\ dest_file = [exists |-> FALSE, header |-> <<>>, rows |-> <<>>]
  /\ error = ""
  /\ lookup = <<>>
  /\ nruns = 1
  /\ runs = fresh_runs

(***************************************************************************)
(* anonymize_csv.                                                          *)
(***************************************************************************)
\* A wrong test: empty and absent cells are anonymized too.
keep_value_preserved_only(column, value) ==
  column \in preserved_columns

\* `column in self.preserved_columns or not value`
keep_value(column, value) ==
  column \in preserved_columns \/ value = <<>> \/ value = NoneValue

\* The cell loop of one row from cell i on: the store and counter it leaves,
\* the row handed to the writer, the exception a cell raised.
\* The key of the i-th item of a row dict: the column, None for the excess.
row_key(header, i) == IF i <= Len(header) THEN header[i] ELSE NoneValue

\* csv.DictWriter.writerow: None is written as the empty string.
writerow(out) == [i \in 1..Len(out) |-> IF out[i] = NoneValue THEN <<>> ELSE out[i]]

RECURSIVE anonymize_cells(_, _, _, _, _, _)
anonymize_cells(m, counter, header, row, i, out) ==
  IF i > Len(row)
  THEN [mappings |-> m, counter |-> counter, out |-> out, exc |-> ""]
  ELSE IF keep_value(row_key(header, i), row[i])
  THEN anonymize_cells(m, counter, header, row, i + 1, Append(out, row[i]))
  ELSE LET r == create_anonymized_value(m, counter, row[i], row_key(header, i))
       IN  IF r.exc # ""
           THEN [mappings |-> r.mappings, counter |-> r.counter,
                 out |-> out, exc |-> r.exc]
           ELSE anonymize_cells(r.mappings, r.counter, header, row, i + 1,
                                Append(out, r.ret))

anonymize_row(m, counter, header, row) ==
  anonymize_cells(m, counter, header, row, 1, <<>>)

\* The source file does not exist: raised before any file is opened.
source_missing ==
  /\ pc = "ready"
  /\ pc' = "failed"
  /\ error' = "FileNotFoundError"
  /\ UNCHANGED <<mappings, anonymization_counter, mapping_file, clock,
                 fieldnames, source_rows, dest_file, lookup, nruns, runs>>

\* Both files are opened (the destination for writing, which creates or
\* truncates it), then the header is read: an undecodable one raises, an
\* empty one raises ValueError, any other is written to the destination.
open_files ==
  /\ pc = "ready"
  /\ \E header \in Headers \cup {<<>>}, readable \in BOOLEAN :
       IF ~readable
       THEN /\ pc' = "failed"
            /\ error' = "UnicodeDecodeError"
            /\ dest_file' = [exists |-> TRUE, header |-> <<>>, rows |-> <<>>]
            /\ UNCHANGED fieldnames
       ELSE IF header = <<>>
       THEN /\ pc' = "failed"
            /\ error' = "ValueError"
            /\ dest_file' = [exists |-> TRUE, header |-> <<>>, rows |-> <<>>]
            /\ UNCHANGED fieldnames
       ELSE /\ pc' = "rows"
            /\ fieldnames' = header
            /\ dest_file' = [exists |-> TRUE, header |-> header, rows |-> <<>>]
            /\ UNCHANGED error
  /\ UNCHANGED <<mappings, anonymization_counter, mapping_file, clock,
                 source_rows, lookup, nruns, runs>>

\* One turn of `for row in reader`: the row is transformed cell by cell and
\* written; a cell that raises ends the run with the row unwritten.
process_row ==
  /\ pc = "rows"
  /\ Len(source_rows) < MaxRows
  /\ \E row \in rows_of(fieldnames) :
       LET r == anonymize_row(mappings, anonymization_counter, fieldnames, row)
       IN  /\ source_rows' = Append(source_rows, row)
           /\ mappings' = r.mappings
           /\ anonymization_counter' = r.counter
           /\ IF r.exc # ""
              THEN /\ pc' = "failed"
                   /\ error' = r.exc
                   /\ UNCHANGED dest_file
              ELSE /\ dest_file' = [dest_file EXCEPT !.rows = Append(@, writerow(r.out))]
                   /\ UNCHANGED <<pc, error>>
  /\ UNCHANGED <<mapping_file, clock, fieldnames, lookup, nruns, runs>>

\* A wrong failure path: the store is saved although the reader raised.
read_error_saving ==
  /\ pc = "rows"
  /\ pc' = "failed"
  /\ error' = "csv.Error"
  /\ mappings' = update_metadata(mappings, clock)
  /\ clock' = clock + 1
  /\ mapping_file' = [exists |-> TRUE, doc |-> json_document(mappings')]
  /\ UNCHANGED <<anonymization_counter, fieldnames, source_rows, dest_file,
                 lookup, nruns, runs>>

\* The reader raises on the next row (malformed or undecodable row, I/O
\* error): the exception leaves anonymize_csv before _save_mappings.
read_error ==
  /\ pc = "rows"
  /\ pc' = "failed"
  /\ error' = "csv.Error"
  /\ UNCHANGED <<mappings, anonymization_counter, mapping_file, clock,
                 fieldnames, source_rows, dest_file, lookup, nruns, runs>>

\* The reader is exhausted: _save_mappings.
save_mappings ==
  /\ pc = "rows"
  /\ mappings' = update_metadata(mappings, clock)
  /\ clock' = clock + 1
  /\ mapping_file' = [exists |-> TRUE, doc |-> json_document(mappings')]
  /\ pc' = "done"
  /\ UNCHANGED <<anonymization_counter, fieldnames, source_rows, dest_file,
                 error, lookup, nruns, runs>>

\* _save_mappings fails after it has updated the metadata: either the
\* mapping file cannot be opened for writing and stays as it was, or it is
\* opened, which truncates it, and the write of the document fails.
save_error ==
  /\ pc = "rows"
  /\ mappings' = update_metadata(mappings, clock)
  /\ clock' = clock + 1
  /\ pc' = "failed"
  /\ error' = "OSError"
  /\ \E opened \in BOOLEAN :
       mapping_file' = IF opened
                       THEN [exists |-> TRUE, doc |-> truncated_document]
                       ELSE mapping_file
  /\ UNCHANGED <<anonymization_counter, fieldnames, source_rows,
                 dest_file, lookup, nruns, runs>>

(***************************************************************************)
(* reverse_lookup, called on a newly constructed engine (main with -r).    *)
(***************************************************************************)
\* The values main may be given on the command line, always str: every str
\* held in some dict of the loaded store (the one int, the total_mappings of
\* the metadata, as its decimal text) and a str the store does not hold.
stored_values(m) ==
  UNION {{IF m[c][1] = METADATA /\ m[c][2][i][1] = TOTAL_MAPPINGS
          THEN Decimal(total_mappings(m)) ELSE m[c][2][i][2] :
            i \in 1..Len(m[c][2])} : c \in 1..Len(m)}
    \cup {<<"?">>}

do_reverse_lookup ==
  /\ pc = "ready"
  /\ \E anonymized_value \in stored_values(mappings),
        column_name \in Columns \cup {NoneValue} :
       lookup' = reverse_lookup(mappings, anonymized_value, column_name)
  /\ pc' = "looked"
  /\ UNCHANGED <<mappings, anonymization_counter, mapping_file, clock,
                 fieldnames, source_rows, dest_file, error, nruns, runs>>

(***************************************************************************)
(* The process ends and the program is started again: __init__.            *)
(***************************************************************************)
\* When json.load raises on the mapping file the constructor raises and
\* main exits: the process has no engine, hence no store.
restart ==
  /\ pc \in {"done", "failed", "looked"}
  /\ nruns < MaxRuns
  /\ nruns' = nruns + 1
  /\ IF unloadable(mapping_file)
     THEN /\ mappings' = <<>>
          /\ pc' = "failed"
          /\ error' = "JSONDecodeError"
          /\ UNCHANGED clock
     ELSE /\ mappings' = load_mappings(mapping_file, clock)
          /\ clock' = IF mapping_file.exists THEN clock ELSE clock + 1
          /\ pc' = "ready"
          /\ error' = ""
  /\ anonymization_counter' = 0
  /\ fieldnames' = <<>>
  /\ source_rows' = <<>>
  /\ lookup' = <<>>
  /\ UNCHANGED <<mapping_file, dest_file, runs>>

Next ==
  \/ source_missing
  \/ open_files
  \/ process_row
  \/ read_error
  \/ save_mappings
  \/ save_error
  \/ do_reverse_lookup
  \/ restart

Spec == Init /\ [][Next]_vars

(***************************************************************************)
(* Two independent engines, each started with no mapping file, each        *)
(* anonymizing cells of its own choice.                                    *)
(***************************************************************************)
RunCells ==
  { <<COL_REGION, V_NORTH>>, <<COL_REGION, V_ABC>>, <<COL_REGION, V_MAIL>>,
    <<COL_REGION, V_DOT>>, <<COL_UTM, V_AB>>, <<METADATA, CREATED>> }

run_create ==
  \E r \in 1..2, cell \in RunCells :
    /\ Len(runs[r].cells) < MaxCalls
    /\ LET res == create_anonymized_value(runs[r].mappings, runs[r].counter,
                                          cell[2], cell[1])
       IN  runs' = [runs EXCEPT ![r] = [mappings |-> res.mappings,
                                        counter |-> res.counter,
                                        cells |-> Append(runs[r].cells, cell)]]
    /\ UNCHANGED engine_vars

NextRuns == run_create

SpecRuns == Init /\ [][NextRuns]_vars

(***************************************************************************)
(* Vocabulary of the properties.                                           *)
(***************************************************************************)
MetadataFields == {CREATED, LAST_UPDATED, TOTAL_MAPPINGS}

\* the column map of column c in store m, empty when m has no such key
column_map(m, c) == IF dict_has(m, c) THEN dict_get(m, c) ELSE <<>>

\* every entry of dict d1 is in d2 with the same value
entries_kept(d1, d2) ==
  \A i \in 1..Len(d1) : dict_has(d2, d1[i][1]) /\ dict_get(d2, d1[i][1]) = d1[i][2]

\* every (column, original value) entry of store m1 is in m2, unchanged
store_kept(m1, m2) ==
  \A c \in Columns :
    dict_has(m1, c) => dict_has(m2, c) /\ entries_kept(dict_get(m1, c), dict_get(m2, c))

\* the cell is one anonymize_csv must anonymize
must_anonymize(column, value) ==
  column \notin preserved_columns /\ value # <<>> /\ value # NoneValue

\* a step that processed one more row, and that row
row_step == Len(source_rows') = Len(source_rows) + 1

new_row == source_rows'[Len(source_rows')]

\* the row has as many cells as the header has columns, or fewer
fits_header == Len(new_row) = Len(fieldnames)

\* the original-value -> pseudonym entries of store m, under whatever key
RECURSIVE mapping_entries(_)
mapping_entries(m) ==
  IF m = <<>> THEN 0
  ELSE (IF Head(m)[1] = METADATA
        THEN Cardinality(dict_keys(Head(m)[2]) \ MetadataFields)
        ELSE Len(Head(m)[2]))
         + mapping_entries(Tail(m))

P_R_001 == <<"R", "_", "0", "0", "1">>

P_R_002 == <<"R", "_", "0", "0", "2">>

(***************************************************************************)
(* C1                                                                      *)
(***************************************************************************)
\* C1: once (C, V) is in the mapping store, get_or_create(C, V) returns the
\* stored pseudonym and changes neither the store nor the counter (no
\* classifier, no generator), and no step of this or a later run (a row, a
\* save, a reload) changes or removes the entry for (C, V), in the store in
\* memory or in the mapping file.
C1_StableMappings ==
  /\ [](\A c \in Columns : \A i \in 1..Len(column_map(mappings, c)) :
          create_anonymized_value(mappings, anonymization_counter,
                                  column_map(mappings, c)[i][1], c)
            = [mappings |-> mappings, counter |-> anonymization_counter,
               exc |-> "", ret |-> column_map(mappings, c)[i][2]])
  /\ [][/\ mapping_file.exists => store_kept(mapping_file.doc, mapping_file'.doc)
        /\ nruns' = nruns => store_kept(mappings, mappings')
        /\ nruns' # nruns /\ mapping_file.exists
             => store_kept(mapping_file.doc, mappings')]_vars

(***************************************************************************)
(* C2                                                                      *)
(***************************************************************************)
\* C2: for every column C that a table anonymizes and every value V mapped
\* in it, reverse_lookup(pseudonym of V, C) returns V: within a column map
\* no two original values share a pseudonym, in whatever order they came.
C2_RoundTrip ==
  \A c \in Columns \ {METADATA} :
    \A i \in 1..Len(column_map(mappings, c)) :
      reverse_lookup(mappings, column_map(mappings, c)[i][2], c)
        = column_map(mappings, c)[i][1]

(***************************************************************************)
(* C3, under SpecRuns                                                      *)
(***************************************************************************)
in_both_runs(cell) == \A r \in 1..2 : cell \in Range(runs[r].cells)

run_pseudonym(r, cell) ==
  dict_get(dict_get(runs[r].mappings, cell[1]), cell[2])

\* the distinct cells run r was given before it first saw `cell`
cells_before(r, cell) ==
  LET cells == runs[r].cells
      first == CHOOSE i \in 1..Len(cells) :
                 cells[i] = cell /\ \A j \in 1..(i - 1) : cells[j] # cell
  IN  {cells[j] : j \in 1..(first - 1)}

\* how many values of the cell's column run r had mapped before it
column_rank(r, cell) ==
  Cardinality({x \in cells_before(r, cell) : x[1] = cell[1]})

\* how many generic values run r had anonymized before it
generic_rank(r, cell) ==
  Cardinality({x \in cells_before(r, cell) : classify(x[1], x[2]) = "generic"})

\* C3: two runs that start from an empty store and both anonymize the cell
\* (C, V) give it the same pseudonym, whatever the column, whatever the
\* classification of V and whatever cells each run processed before.
C3_Determinism ==
  \A cell \in RunCells :
    in_both_runs(cell) => run_pseudonym(1, cell) = run_pseudonym(2, cell)

\* What holds in every column but the metadata key: the two pseudonyms are
\* identical when V is UTM-like or identifier-like, whatever came before;
\* when V is category-like, exactly when both runs had mapped the same
\* number of values of column C before V; when V is generic, exactly when
\* both runs had anonymized the same number of generic values before V.
DeterminismOutsideMetadata ==
  \A cell \in RunCells :
    in_both_runs(cell) /\ cell[1] # METADATA =>
      LET kind == classify(cell[1], cell[2])
          same == run_pseudonym(1, cell) = run_pseudonym(2, cell)
      IN  /\ kind \in {"utm", "id"} => same
          /\ kind = "category" =>
               (same <=> column_rank(1, cell) = column_rank(2, cell))
          /\ kind = "generic" =>
               (same <=> generic_rank(1, cell) = generic_rank(2, cell))

\* In the column named as the metadata key the value `created` is served
\* from each store's own creation timestamp: never the same in two runs.
MetadataCellDiffers ==
  in_both_runs(<<METADATA, CREATED>>) =>
    /\ run_pseudonym(1, <<METADATA, CREATED>>) = isoformat(0)
    /\ run_pseudonym(2, <<METADATA, CREATED>>) = isoformat(1)

(***************************************************************************)
(* C4                                                                      *)
(***************************************************************************)
\* C4 as claimed: a new category-classified value of a column receives the
\* ordinal n when it is the n-th distinct category-classified value of the
\* column; a repeated value reuses its pseudonym and consumes no ordinal.
C4_Ordinal ==
  [][row_step =>
       \A j \in 1..Len(fieldnames) :
         LET c == fieldnames[j]
             v == new_row[j]
             old == column_map(mappings, c)
             new == column_map(mappings', c)
             n == Cardinality({k \in dict_keys(old) : classify(c, k) = "category"}) + 1
         IN  must_anonymize(c, v) /\ classify(c, v) = "category" =>
               IF dict_has(old, v) THEN new = old
               ELSE dict_has(new, v) =>
                      dict_get(new, v)
                        = category_prefix(c).ret \o <<"_">> \o ZeroPad(n, 3)]_vars

\* C4 as amended: a new category-classified value of a column receives the
\* ordinal (number of values of any classification already mapped in the
\* column) + 1, so the n-th distinct value of a column whose values are all
\* category-classified receives n, whatever the alphabetical order; a
\* repeated value reuses its pseudonym and consumes no ordinal.
C4_OrdinalAmended ==
  [][row_step =>
       \A j \in 1..Len(fieldnames) :
         LET c == fieldnames[j]
             v == new_row[j]
             old == column_map(mappings, c)
             new == column_map(mappings', c)
         IN  must_anonymize(c, v) /\ classify(c, v) = "category" =>
               IF dict_has(old, v) THEN new = old
               ELSE dict_has(new, v) =>
                      /\ Len(new) = Len(old) + 1
                      /\ dict_get(new, v)
                           = category_prefix(c).ret \o <<"_">>
                               \o ZeroPad(Len(old) + 1, 3)]_vars

\* South first, North second in column region: ordinals 1 and 2, against the
\* alphabetical order.
C4_Witness ==
  /\ pc = "done"
  /\ Len(source_rows) >= 2
  /\ source_rows[1] = <<V_7, V_SOUTH>>
  /\ source_rows[2] = <<V_7, V_NORTH>>
  /\ dest_file.rows[1] = <<V_7, P_R_001>>
  /\ dest_file.rows[2] = <<V_7, P_R_002>>

(***************************************************************************)
(* C5                                                                      *)
(***************************************************************************)
\* the key of the j-th item of the new row
new_key(j) == row_key(fieldnames, j)

\* C5 as claimed: a row is written as one row with the columns of the
\* header, after the rows written before it; a cell of a preserved column,
\* an empty cell and an absent cell are written as read (the output cell
\* equals the input cell), every other cell as the pseudonym get_or_create
\* gives it; a column whose cell is copied keeps its column map as it was,
\* and a row of copied cells leaves the store and the counter untouched.
C5_Passthrough ==
  [][/\ row_step =>
          /\ \A c \in Columns :
               (\A j \in 1..Len(new_row) :
                  new_key(j) = c => ~must_anonymize(c, new_row[j]))
                 => /\ dict_has(mappings', c) <=> dict_has(mappings, c)
                    /\ column_map(mappings', c) = column_map(mappings, c)
          /\ (\A j \in 1..Len(new_row) : ~must_anonymize(new_key(j), new_row[j]))
               => mappings' = mappings /\ anonymization_counter' = anonymization_counter
          /\ error' = "" =>
               /\ Len(dest_file'.rows) = Len(dest_file.rows) + 1
               /\ SubSeq(dest_file'.rows, 1, Len(dest_file.rows)) = dest_file.rows
               /\ LET out == dest_file'.rows[Len(dest_file'.rows)]
                  IN  /\ Len(out) = Len(fieldnames)
                      /\ \A j \in 1..Len(fieldnames) :
                           out[j] = IF must_anonymize(fieldnames[j], new_row[j])
                                    THEN dict_get(dict_get(mappings', fieldnames[j]),
                                                  new_row[j])
                                    ELSE new_row[j]
          /\ error' # "" => dest_file' = dest_file
     /\ pc' \in {"rows", "done"} =>
          /\ dest_file'.header = fieldnames'
          /\ Len(dest_file'.rows) = Len(source_rows')]_vars

\* C5 as amended: as claimed, except that an absent cell (a row shorter than
\* the header) is written as an empty cell, that a row with more cells than
\* the header raises in the cell loop, and that a row in which a cell raises
\* is not written and ends the run.
C5_PassthroughAmended ==
  [][/\ row_step =>
          /\ \A c \in Columns :
               (\A j \in 1..Len(new_row) :
                  new_key(j) = c => ~must_anonymize(c, new_row[j]))
                 => /\ dict_has(mappings', c) <=> dict_has(mappings, c)
                    /\ column_map(mappings', c) = column_map(mappings, c)
          /\ (\A j \in 1..Len(new_row) : ~must_anonymize(new_key(j), new_row[j]))
               => mappings' = mappings /\ anonymization_counter' = anonymization_counter
          /\ ~fits_header => error' # ""
          /\ error' = "" =>
               /\ pc' = "rows"
               /\ Len(dest_file'.rows) = Len(dest_file.rows) + 1
               /\ SubSeq(dest_file'.rows, 1, Len(dest_file.rows)) = dest_file.rows
               /\ LET out == dest_file'.rows[Len(dest_file'.rows)]
                  IN  /\ Len(out) = Len(fieldnames)
                      /\ \A j \in 1..Len(fieldnames) :
                           out[j] = IF must_anonymize(fieldnames[j], new_row[j])
                                    THEN dict_get(dict_get(mappings', fieldnames[j]),
                                                  new_row[j])
                                    ELSE IF new_row[j] = NoneValue THEN <<>>
                                    ELSE new_row[j]
          /\ error' # "" => dest_file' = dest_file /\ pc' = "failed"
     /\ pc' \in {"rows", "done"} =>
          /\ dest_file'.header = fieldnames'
          /\ Len(dest_file'.rows) = Len(source_rows')]_vars

\* A finished run over two rows: the preserved id is copied, North is
\* replaced, the absent region of the second row is written as empty.
C5_Witness ==
  /\ pc = "done"
  /\ fieldnames = <<COL_ID, COL_REGION>>
  /\ source_rows = << <<V_7, V_NORTH>>, <<V_7, NoneValue>> >>
  /\ dest_file.rows = << <<V_7, P_R_001>>, <<V_7, <<>>>> >>
  /\ ~dict_has(mappings, COL_ID)

(***************************************************************************)
(* C6                                                                      *)
(***************************************************************************)
\* C6: the mapping file changes only in the step that ends the row loop of
\* a run, when every row read has been written, and at most once in a run;
\* when the save succeeds the file holds the store of that moment (when the
\* write fails, the truncated file); a run that fails before or at a row
\* (the reader raising, a cell raising, a malformed row) leaves the file
\* exactly as it was, although the store in memory may hold new mappings.
C6_SaveAtEnd ==
  [][/\ mapping_file' # mapping_file =>
          /\ pc = "rows" /\ pc' \in {"done", "failed"} /\ nruns' = nruns
          /\ source_rows' = source_rows
          /\ Len(dest_file.rows) = Len(source_rows)
          /\ pc' = "done" =>
               mapping_file' = [exists |-> TRUE, doc |-> json_document(mappings')]
          /\ pc' = "failed" =>
               error' = "OSError" /\ mapping_file'.doc = truncated_document
     /\ pc' = "failed" /\ (pc = "ready" \/ row_step \/ error' = "csv.Error")
          => mapping_file' = mapping_file
     /\ pc \in {"done", "failed"} /\ nruns' = nruns =>
          pc' = pc /\ mapping_file' = mapping_file]_vars

\* A second run that failed at a malformed row (longer than the header)
\* after it had created a mapping: the mapping file still holds what the
\* first run saved.
C6_Witness ==
  /\ pc = "failed"
  /\ nruns = 2
  /\ error = "TypeError"
  /\ Len(source_rows) >= 1
  /\ mapping_file.exists
  /\ \E c \in Columns \ {METADATA} :
       Len(column_map(mappings, c)) > Len(column_map(mapping_file.doc, c))

(***************************************************************************)
(* C7                                                                      *)
(***************************************************************************)
\* C7: a successful save leaves in the metadata block total_mappings = the number of
\* original-value -> pseudonym entries of the store at that moment, a
\* last_updated that is the time of the save and not the one before, and
\* created as it was.
C7_MetadataOnSave ==
  [][mapping_file' # mapping_file /\ pc' = "done" =>
       LET saved == dict_get(mapping_file'.doc, METADATA)
           before == dict_get(mappings, METADATA)
       IN  /\ dict_get(saved, TOTAL_MAPPINGS)
                = IntValue(mapping_entries(mapping_file'.doc))
           /\ dict_get(saved, LAST_UPDATED) = isoformat(clock)
           /\ dict_has(before, LAST_UPDATED) =>
                dict_get(saved, LAST_UPDATED) # dict_get(before, LAST_UPDATED)
           /\ dict_get(saved, CREATED) = dict_get(before, CREATED)]_vars

(***************************************************************************)
(* C8                                                                      *)
(***************************************************************************)
\* C8: when anonymize_csv fails before the first row (source file absent,
\* header empty or unreadable) an error is raised, the destination file is
\* as it was, not created and not modified, and the mapping file is as it
\* was.
C8_NoOutputOnInvalidInput ==
  [][pc = "ready" /\ pc' = "failed" =>
       /\ error' \in {"FileNotFoundError", "ValueError", "UnicodeDecodeError"}
       /\ dest_file' = dest_file
       /\ mapping_file' = mapping_file]_vars

(***************************************************************************)
(* C9                                                                      *)
(***************************************************************************)
\* C9: whatever the column names, a row of str cells never fails in a
\* generator: every cell to anonymize has a pseudonym in its column map once
\* the row is processed; and the category generator gives the prefix CAT to
\* a column name without initials.
C9_GeneratorsTotal ==
  [][row_step /\ fits_header =>
       /\ error' = ""
       /\ \A j \in 1..Len(fieldnames) :
            must_anonymize(fieldnames[j], new_row[j]) =>
              dict_has(column_map(mappings', fieldnames[j]), new_row[j])
       /\ \A name \in {<<>>, <<"_">>} :
            category_prefix(name) = [exc |-> "", ret |-> <<"C", "A", "T">>]]_vars

(***************************************************************************)
(* C10                                                                     *)
(***************************************************************************)
\* C10: the metadata dict of the store holds nothing but its three fields,
\* reverse_lookup never returns one of them as an original value, and the
\* dict changes only in a save or when a new process loads the store.
C10_MetadataIsolation ==
  /\ [](/\ dict_keys(column_map(mappings, METADATA)) \subseteq MetadataFields
        /\ lookup \notin MetadataFields)
  /\ [][column_map(mappings', METADATA) # column_map(mappings, METADATA) =>
          \/ pc = "rows" /\ pc' \in {"done", "failed"} /\ source_rows' = source_rows
          \/ nruns' # nruns]_vars

====
